---------------------------- MODULE Spec2Model ----------------------------
(***************************************************************************)
(* TOTP URI parsing, defaulting, token generation and edit reconciliation  *)
(* of proton-pass-common, as exposed through the mobile binding.           *)
(*                                                                         *)
(* Strings are sequences of one-character strings, so that case folding,   *)
(* substring search, splitting and decimal parsing are computed character  *)
(* by character.  Option<T> is a sequence of length at most one:           *)
(* None == <<>>, Some(x) == <<x>>.  Result<T, E> is a record with the      *)
(* field ok and either val or err.                                         *)
(***************************************************************************)
EXTENDS Integers, Sequences, FiniteSets, TLC

VARIABLES call, ret, last

vars == <<call, ret, last>>

----------------------------------------------------------------------------
(* Option and Result *)

None == <<>>

Some(x) == <<x>>

Ok(v) == [ok |-> TRUE, val |-> v]

Err(kind, payload) == [ok |-> FALSE, err |-> [kind |-> kind, payload |-> payload]]

----------------------------------------------------------------------------
(* Characters and strings *)

UpperLetters == <<"A","B","C","D","E","F","G","H","I","J","K","L","M",
                  "N","O","P","Q","R","S","T","U","V","W","X","Y","Z">>

LowerLetters == <<"a","b","c","d","e","f","g","h","i","j","k","l","m",
                  "n","o","p","q","r","s","t","u","v","w","x","y","z">>

DigitChars == <<"0","1","2","3","4","5","6","7","8","9">>

Range(s) == {s[i] : i \in DOMAIN s}

IndexIn(c, s) == CHOOSE i \in DOMAIN s : s[i] = c

\* char::to_lowercase on the ASCII range
LowerChar(c) == IF c \in Range(UpperLetters) THEN LowerLetters[IndexIn(c, UpperLetters)] ELSE c

\* str::to_lowercase
to_lowercase(s) == [i \in 1..Len(s) |-> LowerChar(s[i])]

IsAlpha(c) == c \in Range(UpperLetters) \cup Range(LowerLetters)

IsDigit(c) == c \in Range(DigitChars)

\* s[from..] (1-based, empty when from is past the end)
Drop(s, from) == IF from > Len(s) THEN <<>> ELSE SubSeq(s, from, Len(s))

\* s[..upto]
Take(s, upto) == IF upto < 1 THEN <<>> ELSE SubSeq(s, 1, upto)

\* position of the first character of s that is in set cs, or 0
FirstOf(s, cs) == IF \E i \in DOMAIN s : s[i] \in cs
                  THEN CHOOSE i \in DOMAIN s : s[i] \in cs /\ \A j \in 1..(i-1) : s[j] \notin cs
                  ELSE 0

StartsWith(s, p) == Len(s) >= Len(p) /\ SubSeq(s, 1, Len(p)) = p

\* str::contains(pattern): substring search, case-sensitive
contains(s, p) == \E i \in 0..(Len(s) - Len(p)) : SubSeq(s, i + 1, i + Len(p)) = p

\* str::split(sep) for a one-character separator: always at least one piece
RECURSIVE Split(_, _)
Split(s, sep) == LET i == FirstOf(s, {sep})
                 IN IF i = 0 THEN <<s>>
                    ELSE <<Take(s, i - 1)>> \o Split(Drop(s, i + 1), sep)


Max(S) == CHOOSE m \in S : \A n \in S : n <= m

----------------------------------------------------------------------------
(* String literals used by the code *)

sOtpauth == <<"o","t","p","a","u","t","h">>

sTotp == <<"t","o","t","p">>

sSecret == <<"s","e","c","r","e","t">>

sIssuer == <<"i","s","s","u","e","r">>

sAlgorithm == <<"a","l","g","o","r","i","t","h","m">>

sDigits == <<"d","i","g","i","t","s">>

sPeriod == <<"p","e","r","i","o","d">>

sSHA1 == <<"S","H","A","1">>

sSHA256 == <<"S","H","A","2","5","6">>

sSHA512 == <<"S","H","A","5","1","2">>

----------------------------------------------------------------------------
(* The generic-URI collaborator (uriparse), RFC 3986 generic syntax:       *)
(*   scheme ":" [ "//" authority ] path [ "?" query ]                      *)

SchemeChars == Range(UpperLetters) \cup Range(LowerLetters) \cup Range(DigitChars)
               \cup {"+", "-", "."}

\* characters allowed after the scheme: unreserved, pct-encoded, sub-delims, ":" "@" "/" "?"
UriChars == Range(UpperLetters) \cup Range(LowerLetters) \cup Range(DigitChars)
            \cup {"-", ".", "_", "~", "%", "&", "=", "+", ":", "@", "/", "?"}

\* schemes the URI parser knows by name; it reports them by their canonical
\* lower-case name, whatever the case of the input
RegisteredSchemes == { <<"h","t","t","p">>, <<"h","t","t","p","s">>, <<"f","t","p">> }

\* uri.scheme().to_string(): a registered scheme prints as its canonical name,
\* an unregistered one as it was written
SchemeToString(text) == IF to_lowercase(text) \in RegisteredSchemes
                        THEN to_lowercase(text)
                        ELSE text

\* path().segments(): the path split at "/", the leading "/" not counted;
\* there is always at least one (possibly empty) segment
Segments(path) == IF StartsWith(path, <<"/">>) THEN Split(Drop(path, 2), "/")
                  ELSE Split(path, "/")

\* URI::try_from(&str)
URI_try_from(s) ==
    LET c        == FirstOf(s, {":"})
        scheme   == Take(s, c - 1)
        rest     == Drop(s, c + 1)
        hasAuth  == StartsWith(rest, <<"/", "/">>)
        afterSl  == IF hasAuth THEN Drop(rest, 3) ELSE rest
        aEnd     == FirstOf(afterSl, {"/", "?"})
        authText == IF aEnd = 0 THEN afterSl ELSE Take(afterSl, aEnd - 1)
        pq       == IF hasAuth THEN (IF aEnd = 0 THEN <<>> ELSE Drop(afterSl, aEnd))
                    ELSE rest
        q        == FirstOf(pq, {"?"})
        path     == IF q = 0 THEN pq ELSE Take(pq, q - 1)
    IN  IF \/ c = 0
           \/ scheme = <<>>
           \/ ~IsAlpha(scheme[1])
           \/ \E i \in DOMAIN scheme : scheme[i] \notin SchemeChars
           \/ \E i \in DOMAIN rest : rest[i] \notin UriChars
        THEN [ok |-> FALSE]
        ELSE Ok([scheme    |-> SchemeToString(scheme),
                 authority |-> IF hasAuth THEN Some(authText) ELSE None,
                 segments  |-> Segments(path),
                 query     |-> IF q = 0 THEN None ELSE Some(Drop(pq, q + 1))])

----------------------------------------------------------------------------
(* The query-string collaborator (queryst::parse) and the Queries accessors *)

\* one "key=value" piece; a piece without "=" has the empty value
Pair(piece) == LET e == FirstOf(piece, {"="})
               IN IF e = 0 THEN <<piece, <<>>>>
                  ELSE <<Take(piece, e - 1), Drop(piece, e + 1)>>

\* the flat mapping of a query string, as the sequence of its pairs
ParsePairs(q) == IF q = <<>> THEN <<>>
                 ELSE LET pieces == SelectSeq(Split(q, "&"), LAMBDA p : p # <<>>)
                      IN [i \in 1..Len(pieces) |-> Pair(pieces[i])]

\* The collaborator decodes percent-escapes and builds nested values from
\* bracketed keys; neither is modelled.  For a query string holding "%" its
\* outcome is therefore left open: an error, a value that is no object, or
\* the flat mapping.  Every other query string gives the flat mapping.
QueryOutcomes(q) == IF "%" \in Range(q) THEN {"object", "nonobject", "error"}
                    ELSE {"object"}

\* queryst::parse(query), with the collaborator's outcome qo
parse(q, qo) == IF qo = "error" THEN [ok |-> FALSE]
                ELSE Ok([object |-> qo = "object",
                         pairs  |-> IF qo = "object" THEN ParsePairs(q) ELSE <<>>])

\* Map::get: a later pair of the same key replaces an earlier one
Get(queries, key) == LET idx == {i \in DOMAIN queries : queries[i][1] = key}
                     IN IF idx = {} THEN None ELSE Some(queries[Max(idx)][2])

\* GetQueryValue::get_string_value
get_string_value(queries, key) == Get(queries, key)

RECURSIVE DecimalValue(_, _, _)
\* the value of a digit string, saturating just above max (checked arithmetic)
DecimalValue(s, acc, max) ==
    IF s = <<>> THEN acc
    ELSE DecimalValue(Tail(s),
                      IF acc > max THEN max + 1
                      ELSE acc * 10 + (IndexIn(Head(s), DigitChars) - 1),
                      max)

\* str::parse::<uN>(): an optional "+", then one or more decimal digits,
\* the value at most max; anything else is an error
ParseUnsigned(s, max) ==
    LET body == IF StartsWith(s, <<"+">>) THEN Drop(s, 2) ELSE s
    IN IF body = <<>> \/ \E i \in DOMAIN body : ~IsDigit(body[i]) THEN None
       ELSE LET v == DecimalValue(body, 0, max)
            IN IF v > max THEN None ELSE Some(v)

\* GetQueryValue::get_string_parsable_value::<uN>: parse failure is absence
get_string_parsable_value(queries, key, max) ==
    LET v == Get(queries, key)
    IN IF v = None THEN None ELSE ParseUnsigned(v[1], max)

----------------------------------------------------------------------------
(* Algorithm *)

\* Algorithm::new: the three names, compared without regard to case
Algorithm_new(value) ==
    IF to_lowercase(value) = to_lowercase(sSHA1) THEN Ok("SHA1")
    ELSE IF to_lowercase(value) = to_lowercase(sSHA256) THEN Ok("SHA256")
    ELSE IF to_lowercase(value) = to_lowercase(sSHA512) THEN Ok("SHA512")
    ELSE Err("InvalidAlgorithm", value)

----------------------------------------------------------------------------
(* TOTPComponents *)

\* the largest u8 (digits: Option<u8>)
U8Max == 255

\* the largest u16 (period: Option<u16>)
U16Max == 65535

\* check_scheme with the payload folded to lower case
check_scheme_lowercased_payload(uri) ==
    LET scheme == uri.scheme
    IN IF to_lowercase(scheme) = sOtpauth THEN Ok(<<>>)
       ELSE Err("InvalidScheme", to_lowercase(scheme))

\* TOTPComponents::check_scheme
check_scheme(uri) ==
    LET scheme == uri.scheme
    IN IF to_lowercase(scheme) = sOtpauth THEN Ok(<<>>)
       ELSE Err("InvalidScheme", scheme)

\* TOTPComponents::check_otp_type
check_otp_type(uri) ==
    IF uri.authority # None
    THEN LET authority == uri.authority[1]
         IN IF authority = <<>> THEN Err("NoAuthority", <<>>)
            ELSE IF to_lowercase(authority) = sTotp THEN Ok(<<>>)
            ELSE Err("InvalidAuthority", authority)
    ELSE Err("NoAuthority", <<>>)

\* parse_label taking the first path segment instead of the last
parse_label_first_segment(uri) ==
    LET label == uri.segments[1]
    IN IF label = <<>> THEN None ELSE Some(label)

\* TOTPComponents::parse_label
parse_label(uri) ==
    LET label == uri.segments[Len(uri.segments)]
    IN IF label = <<>> THEN None ELSE Some(label)

\* TOTPComponents::parse_queries
parse_queries(uri, qo) ==
    IF uri.query = None THEN Err("NoQueries", <<>>)
    ELSE LET queries_value == parse(uri.query[1], qo)
         IN IF ~queries_value.ok THEN Err("NoQueries", <<>>)
            ELSE IF queries_value.val.object THEN Ok(queries_value.val.pairs)
            ELSE Err("NoQueries", <<>>)

\* get_secret without the check for an empty value
get_secret_unchecked(queries) ==
    LET value == get_string_value(queries, sSecret)
    IN IF value # None THEN Ok(value[1]) ELSE Err("NoSecret", <<>>)

\* TOTPComponents::get_secret
get_secret(queries) ==
    LET value == get_string_value(queries, sSecret)
    IN IF value # None
       THEN (IF value[1] = <<>> THEN Err("EmptySecret", <<>>) ELSE Ok(value[1]))
       ELSE Err("NoSecret", <<>>)

\* get_algorithm treating an unknown name as an absent one
get_algorithm_lenient(queries) ==
    LET value == get_string_value(queries, sAlgorithm)
    IN IF value # None
       THEN LET a == Algorithm_new(value[1])
            IN IF a.ok THEN Ok(Some(a.val)) ELSE Ok(None)
       ELSE Ok(None)

\* TOTPComponents::get_algorithm
get_algorithm(queries) ==
    LET value == get_string_value(queries, sAlgorithm)
    IN IF value # None
       THEN LET a == Algorithm_new(value[1])
            IN IF a.ok THEN Ok(Some(a.val)) ELSE a
       ELSE Ok(None)

\* parse_uri checking the authority before the scheme
parse_uri_authority_first(uri, qo) ==
    LET s == check_scheme(uri)
        t == check_otp_type(uri)
        label == parse_label(uri)
        queries == parse_queries(uri, qo)
        secret == get_secret(queries.val)
        issuer == get_string_value(queries.val, sIssuer)
        algorithm == get_algorithm(queries.val)
        digits == get_string_parsable_value(queries.val, sDigits, U8Max)
        period == get_string_parsable_value(queries.val, sPeriod, U16Max)
    IN IF ~t.ok THEN t
       ELSE IF ~s.ok THEN s
       ELSE IF ~queries.ok THEN queries
       ELSE IF ~secret.ok THEN secret
       ELSE IF ~algorithm.ok THEN algorithm
       ELSE Ok([label     |-> label,
                secret    |-> secret.val,
                issuer    |-> issuer,
                algorithm |-> algorithm.val,
                digits    |-> digits,
                period    |-> period])

\* TOTPComponents::parse_uri: the gates in the order of the code, each "?" an
\* early return
parse_uri(uri, qo) ==
    LET s == check_scheme(uri)
        t == check_otp_type(uri)
        label == parse_label(uri)
        queries == parse_queries(uri, qo)
        secret == get_secret(queries.val)
        issuer == get_string_value(queries.val, sIssuer)
        algorithm == get_algorithm(queries.val)
        digits == get_string_parsable_value(queries.val, sDigits, U8Max)
        period == get_string_parsable_value(queries.val, sPeriod, U16Max)
    IN IF ~s.ok THEN s
       ELSE IF ~t.ok THEN t
       ELSE IF ~queries.ok THEN queries
       ELSE IF ~secret.ok THEN secret
       ELSE IF ~algorithm.ok THEN algorithm
       ELSE Ok([label     |-> label,
                secret    |-> secret.val,
                issuer    |-> issuer,
                algorithm |-> algorithm.val,
                digits    |-> digits,
                period    |-> period])

\* TOTPComponents::from_uri
from_uri(uri, qo) ==
    LET parsed == URI_try_from(uri)
    IN IF parsed.ok THEN parse_uri(parsed.val, qo)
       ELSE Err("URIError", <<>>)

----------------------------------------------------------------------------
(* TOTP: defaulting and token generation *)

\* Algorithm::default
DefaultAlgorithm == "SHA1"

\* the default number of digits
DefaultDigits == 6

\* the default period, in seconds
DefaultPeriod == 30

unwrap_or(opt, default) == IF opt = None THEN default ELSE opt[1]

\* TOTP built from TOTPComponents: the absent fields take their defaults
TOTP_from_components(c) ==
    [label     |-> c.label,
     secret    |-> c.secret,
     issuer    |-> c.issuer,
     algorithm |-> unwrap_or(c.algorithm, DefaultAlgorithm),
     digits    |-> unwrap_or(c.digits, DefaultDigits),
     period    |-> unwrap_or(c.period, DefaultPeriod)]

\* TOTP::from_uri
TOTP_from_uri(uri, qo) ==
    LET c == from_uri(uri, qo)
    IN IF c.ok THEN Ok(TOTP_from_components(c.val)) ELSE c

\* TOTP { secret, ..Default::default() }
TOTP_from_secret(secret) ==
    [label     |-> None,
     secret    |-> secret,
     issuer    |-> None,
     algorithm |-> DefaultAlgorithm,
     digits    |-> DefaultDigits,
     period    |-> DefaultPeriod]

\* the base32 alphabet, either case
Base32Chars == Range(UpperLetters) \cup Range(LowerLetters) \cup {"2","3","4","5","6","7"}

\* whether the secret decodes to key bytes
SecretDecodes(secret) == secret # <<>> /\ \A i \in DOMAIN secret : secret[i] \in Base32Chars

\* base32 of the 20-byte key "12345678901234567890" of RFC 4226, Appendix D
RfcKey == <<"G","E","Z","D","G","N","B","V","G","Y","3","T","Q","O","J","Q",
            "G","E","Z","D","G","N","B","V","G","Y","3","T","Q","O","J","Q">>

\* RFC 4226, Appendix D: the dynamically truncated 31-bit value of
\* HMAC-SHA-1(key, counter) for the key above and the counters 0..9
RfcTruncated == <<1284755224, 1094287082, 137359152, 1726969429, 1640338314,
                  868254676, 1918287922, 82162583, 673399871, 645520489>>

RECURSIVE CharSum(_)
CharSum(s) == IF s = <<>> THEN 0
              ELSE (IF IsDigit(Head(s)) THEN IndexIn(Head(s), DigitChars)
                    ELSE IF IsAlpha(Head(s)) THEN IndexIn(LowerChar(Head(s)), LowerLetters)
                    ELSE 1) + CharSum(Tail(s))

\* The HMAC collaborator followed by dynamic truncation: a 31-bit value that
\* depends on the algorithm, the key and the counter, and on nothing else.
\* For SHA1 and the RFC key it is the RFC's value; other keys and algorithms
\* read the same table at a shifted place.
HmacTruncated(algorithm, secret, counter) ==
    LET shift == (IF secret = RfcKey THEN 0 ELSE 1 + (CharSum(secret) % 4))
                 + (CASE algorithm = "SHA1" -> 0
                      [] algorithm = "SHA256" -> 3
                      [] algorithm = "SHA512" -> 7)
    IN RfcTruncated[((counter + shift) % 10) + 1]

\* 10^d for d below 10; a 31-bit value is below 10^10
Pow10(d) == CASE d = 0 -> 1 [] d = 1 -> 10 [] d = 2 -> 100 [] d = 3 -> 1000
              [] d = 4 -> 10000 [] d = 5 -> 100000 [] d = 6 -> 1000000
              [] d = 7 -> 10000000 [] d = 8 -> 100000000 [] d = 9 -> 1000000000

\* value modulo 10^digits, for a value below 2^31
ModPow10(value, digits) == IF digits >= 10 THEN value ELSE value % Pow10(digits)

RECURSIVE Decimal(_)
\* the decimal rendering of a natural number: at least one digit
Decimal(n) == IF n < 10 THEN <<DigitChars[n + 1]>>
              ELSE Decimal(n \div 10) \o <<DigitChars[(n % 10) + 1]>>

\* left-pad with "0" to at least width characters; never cuts
ZeroPad(s, width) == IF Len(s) >= width THEN s
                     ELSE [i \in 1..(width - Len(s)) |-> "0"] \o s

\* the time-step counter
Counter(current_time, period) == current_time \div period

\* TOTP::generate_token
generate_token(totp, current_time) ==
    IF totp.period = 0 THEN Err("ZeroPeriod", <<>>)
    ELSE IF ~SecretDecodes(totp.secret) THEN Err("SecretParseError", <<>>)
    ELSE Ok(ZeroPad(Decimal(ModPow10(HmacTruncated(totp.algorithm, totp.secret,
                                                   Counter(current_time, totp.period)),
                                     totp.digits)),
                    totp.digits))

----------------------------------------------------------------------------
(* The mobile binding *)

\* TotpTokenGenerator::generate_token, the choice of the TOTP: a source that
\* holds "otpauth" is parsed as a URI, any other is the secret itself
SourceToTotp(uri, qo) ==
    IF contains(uri, sOtpauth) THEN TOTP_from_uri(uri, qo)
    ELSE Ok(TOTP_from_secret(uri))

\* the token taken one second late
TokenResult_one_second_late(totp, current_time) ==
    IF ~totp.ok THEN totp
    ELSE IF ~generate_token(totp.val, current_time + 1).ok
         THEN generate_token(totp.val, current_time + 1)
    ELSE Ok([totp      |-> totp.val,
             token     |-> generate_token(totp.val, current_time + 1).val,
             timestamp |-> current_time])

\* TotpTokenGenerator::generate_token, from the TOTP on: "?" returns the
\* error of either step
TokenResult(totp, current_time) ==
    IF ~totp.ok THEN totp
    ELSE IF ~generate_token(totp.val, current_time).ok
         THEN generate_token(totp.val, current_time)
    ELSE Ok([totp      |-> totp.val,
             token     |-> generate_token(totp.val, current_time).val,
             timestamp |-> current_time])

\* TotpTokenGenerator::generate_token
TotpTokenGenerator_generate_token(uri, current_time, qo) ==
    TokenResult(SourceToTotp(uri, qo), current_time)

----------------------------------------------------------------------------
(* The sanitizer *)

AlgorithmName(a) == CASE a = "SHA1" -> sSHA1 [] a = "SHA256" -> sSHA256 [] a = "SHA512" -> sSHA512

\* "&key=value" for a present field, nothing for an absent one
QueryField(key, opt) == IF opt = None THEN <<>> ELSE <<"&">> \o key \o <<"=">> \o opt[1]

\* the otpauth URI of a set of components: only the present fields are written
to_uri(c) ==
    sOtpauth \o <<":", "/", "/">> \o sTotp \o <<"/">> \o unwrap_or(c.label, <<>>)
    \o <<"?">> \o sSecret \o <<"=">> \o c.secret
    \o QueryField(sIssuer, c.issuer)
    \o QueryField(sAlgorithm, IF c.algorithm = None THEN None
                              ELSE Some(AlgorithmName(c.algorithm[1])))
    \o QueryField(sDigits, IF c.digits = None THEN None ELSE Some(Decimal(c.digits[1])))
    \o QueryField(sPeriod, IF c.period = None THEN None ELSE Some(Decimal(c.period[1])))

\* sanitizer::uri_for_editing: a structured URI and a bare secret are both
\* shown as they are
uri_for_editing(original_uri) ==
    IF from_uri(original_uri, "object").ok THEN original_uri ELSE original_uri

\* sanitizer::uri_for_saving
uri_for_saving(original_uri, edited_uri) ==
    LET original == from_uri(original_uri, "object")
        edited   == from_uri(edited_uri, "object")
    IN IF URI_try_from(edited_uri).ok
       THEN (IF edited.ok THEN Ok(edited_uri) ELSE edited)
       ELSE IF original.ok
            THEN Ok(to_uri([original.val EXCEPT !.secret = edited_uri]))
            ELSE Ok(edited_uri)

\* TotpUriSanitizer::uri_for_editing
TotpUriSanitizer_uri_for_editing(original_uri) == uri_for_editing(original_uri)

\* uri_for_saving called with its two arguments in the wrong order
TotpUriSanitizer_uri_for_saving_swapped(original_uri, edited_uri) ==
    uri_for_saving(edited_uri, original_uri)

\* TotpUriSanitizer::uri_for_saving
TotpUriSanitizer_uri_for_saving(original_uri, edited_uri) ==
    uri_for_saving(original_uri, edited_uri)

----------------------------------------------------------------------------
(* Inputs.  A URI is written from a recipe, so that what was written is     *)
(* known independently of what the parsers make of it.                      *)

\* the largest current_time tried
MaxTime == 31

sJBSW == <<"J","B","S","W","Y","3","D","P">>

sNB2W == <<"N","B","2","W","4","5","D","F">>

sProton == <<"P","r","o","t","o","n">>

sHttps == <<"h","t","t","p","s">>

sHotp == <<"h","o","t","p">>

sSHA128 == <<"S","H","A","1","2","8">>

\* the fields of a query recipe, in the order they are written
QueryKeys == <<sSecret, sIssuer, sAlgorithm, sDigits, sPeriod, <<"x">> >>

QueryValues(q) == <<q.secret, q.issuer, q.algorithm, q.digits, q.period, q.extra>>

RECURSIVE JoinAmp(_)
JoinAmp(pieces) == IF pieces = <<>> THEN <<>>
                   ELSE IF Len(pieces) = 1 THEN pieces[1]
                   ELSE pieces[1] \o <<"&">> \o JoinAmp(Tail(pieces))

RenderQuery(q) ==
    LET present == SelectSeq([i \in 1..6 |-> <<QueryKeys[i], QueryValues(q)[i]>>],
                             LAMBDA kv : kv[2] # None)
    IN JoinAmp([i \in 1..Len(present) |-> present[i][1] \o <<"=">> \o present[i][2][1]])

Render(r) ==
    IF r.bare THEN r.text
    ELSE r.scheme \o <<":">>
         \o (IF r.auth = None THEN <<>> ELSE <<"/", "/">> \o r.auth[1])
         \o r.path
         \o (IF r.query = None THEN <<>> ELSE <<"?">> \o RenderQuery(r.query[1]))

Bare(text) == [bare |-> TRUE, text |-> text]

Uri(scheme, auth, path, query) ==
    [bare |-> FALSE, scheme |-> scheme, auth |-> auth, path |-> path, query |-> query]

Query(secret, issuer, algorithm, digits, period, extra) ==
    [secret |-> secret, issuer |-> issuer, algorithm |-> algorithm,
     digits |-> digits, period |-> period, extra |-> extra]

\* the outcomes the query-string collaborator may have on a recipe's query
OutcomesOf(r) == IF r.bare \/ r.query = None THEN {"object"}
                 ELSE QueryOutcomes(RenderQuery(r.query[1]))

Schemes == { sOtpauth, <<"O","t","p","A","u","t","h">>, sHttps,
             <<"H","T","T","P","S">>, <<"M","y","A","p","p">> }

Authorities == { None, Some(<<>>), Some(sTotp), Some(<<"T","O","T","P">>), Some(sHotp) }

Paths == { <<"/">>, <<"/","j","%","4","0","x">>, <<"/","a","/","b">> }

BareTexts == { sJBSW, RfcKey, <<"s","1">>, <<"a"," ","b">>, sOtpauth \o sJBSW }

\* inputs that fail at one gate or at several at once
GateInputs ==
    { Uri(s, a, p, q) :
        s \in Schemes, a \in Authorities, p \in {<<"/">>, <<"/","j","%","4","0","x">>},
        q \in {None} \cup
              { Some(Query(sec, None, alg, None, None, extra)) :
                  sec \in {None, Some(<<>>), Some(sJBSW)},
                  alg \in {None, Some(sSHA128)},
                  extra \in {None, Some(<<"%","5","B">>)} } }

\* inputs that pass the scheme and authority gates and vary the fields
FieldInputs ==
    { Uri(sOtpauth, Some(sTotp), p, Some(Query(Some(sJBSW), iss, alg, dig, per, None))) :
        p \in Paths,
        iss \in {None, Some(sProton)},
        alg \in {None, Some(sSHA1), Some(<<"s","h","a","2","5","6">>), Some(sSHA512),
                 Some(sSHA128)},
        dig \in {None, Some(<<"8">>), Some(<<"0">>), Some(<<"2","5","5">>),
                 Some(<<"2","5","6">>), Some(<<"x","8">>), Some(<<>>)},
        per \in {None, Some(<<"4","5">>), Some(<<"0">>), Some(<<"6","5","5","3","5">>),
                 Some(<<"6","5","5","3","6">>), Some(<<"4","x">>)} }

\* inputs that are no URI at all, whatever else is wrong with them
SyntaxInputs ==
    { Uri(sHttps, Some(sHotp), <<"/","a"," ","b">>, None),
      Uri(sOtpauth, Some(sTotp), <<"/","a"," ","b">>,
          Some(Query(Some(sJBSW), None, None, None, None, None))) }
    \cup {Bare(b) : b \in BareTexts}

ParseInputs == GateInputs \cup FieldInputs \cup SyntaxInputs

\* the digits and period values tried for token generation
TokenShapes ==
    { <<None, None>>, <<Some(<<"8">>), Some(<<"3">>)>> }
    \cup { <<Some(d), None>> : d \in {<<"0">>, <<"1">>, <<"8">>, <<"1","0">>, <<"1","2">>} }
    \cup { <<None, Some(p)>> : p \in {<<"0">>, <<"1">>, <<"3">>, <<"4","5">>} }

TokenInputs ==
    { Uri(s, Some(sTotp), <<"/","x">>,
          Some(Query(Some(sec), None, alg, shape[1], shape[2], None))) :
        s \in {sOtpauth, <<"O","T","P","A","U","T","H">>},
        sec \in {sJBSW, RfcKey, <<"s","1">>},
        alg \in {None, Some(<<"s","h","a","2","5","6">>), Some(sSHA512)},
        shape \in TokenShapes }
    \cup {Bare(b) : b \in BareTexts}

\* what is stored before an edit
Originals ==
    { Uri(sOtpauth, Some(sTotp), p, Some(Query(Some(sJBSW), iss, alg, dig, per, None))) :
        p \in {<<"/">>, <<"/","j","%","4","0","x">>},
        iss \in {None, Some(sProton)},
        alg \in {None, Some(sSHA512)},
        dig \in {None, Some(<<"8">>)},
        per \in {None, Some(<<"4","5">>)} }
    \cup { Bare(sJBSW), Uri(sHttps, Some(sTotp), <<"/">>, None) }

\* the recipe r with another secret
WithSecret(r, secret) == [r EXCEPT !.query = Some([r.query[1] EXCEPT !.secret = Some(secret)])]

\* what the user may hand back for the original r: a bare secret, r with the
\* secret replaced, r untouched, r without its query, another scheme
EditsOf(r) ==
    { Bare(sNB2W), r, Uri(sHttps, Some(sTotp), <<"/">>, None) }
    \cup (IF r.bare \/ r.query = None THEN {}
          ELSE { WithSecret(r, sNB2W), [r EXCEPT !.query = None] })

----------------------------------------------------------------------------
(* The state machine: a caller makes one call at a time and takes its result *)

Idle == [op |-> "none"]

NoResult == [ok |-> TRUE, val |-> <<>>]

Init == call = Idle /\ ret = NoResult /\ last = None

\* TOTPComponents::from_uri(uri)
CallComponentsFromUri ==
    /\ call = Idle
    /\ \E r \in ParseInputs : \E qo \in OutcomesOf(r) :
         /\ call' = [op |-> "components_from_uri", input |-> r, uri |-> Render(r), qo |-> qo]
         /\ ret' = from_uri(Render(r), qo)
    /\ UNCHANGED last

\* TOTP::from_uri(uri)
CallTotpFromUri ==
    /\ call = Idle
    /\ \E r \in ParseInputs : \E qo \in OutcomesOf(r) :
         /\ call' = [op |-> "totp_from_uri", input |-> r, uri |-> Render(r), qo |-> qo]
         /\ ret' = TOTP_from_uri(Render(r), qo)
    /\ UNCHANGED last

\* TotpTokenGenerator::generate_token(uri, current_time)
CallGenerateToken ==
    /\ call = Idle
    /\ \E r \in TokenInputs : \E t \in 0..MaxTime :
         /\ call' = [op |-> "generate_token", input |-> r, uri |-> Render(r),
                     qo |-> "object", time |-> t]
         /\ ret' = TotpTokenGenerator_generate_token(Render(r), t, "object")
    /\ UNCHANGED last

\* the same source again, period - 1 or period seconds later; the earlier
\* call and its result are kept in last
CallGenerateTokenLater ==
    /\ call.op = "generate_token"
    /\ ret.ok
    /\ last = None
    /\ \E d \in {ret.val.totp.period - 1, ret.val.totp.period} :
         /\ call' = [call EXCEPT !.time = call.time + d]
         /\ ret' = TotpTokenGenerator_generate_token(call.uri, call.time + d, call.qo)
    /\ last' = Some([time |-> call.time, ret |-> ret])

\* TotpUriSanitizer::uri_for_editing(original_uri)
CallUriForEditing ==
    /\ call = Idle
    /\ \E r \in Originals :
         /\ call' = [op |-> "uri_for_editing", input |-> r, uri |-> Render(r)]
         /\ ret' = Ok(TotpUriSanitizer_uri_for_editing(Render(r)))
    /\ UNCHANGED last

\* TotpUriSanitizer::uri_for_saving(original_uri, edited_uri)
CallUriForSaving ==
    /\ call = Idle
    /\ \E r \in Originals : \E e \in EditsOf(r) :
         /\ call' = [op |-> "uri_for_saving", input |-> r, uri |-> Render(r),
                     edit |-> e, edited |-> Render(e)]
         /\ ret' = TotpUriSanitizer_uri_for_saving(Render(r), Render(e))
    /\ UNCHANGED last

\* the caller takes the result; nothing is kept between calls
Return ==
    /\ call # Idle
    /\ call' = Idle
    /\ ret' = NoResult
    /\ last' = None

Next ==
    \/ CallComponentsFromUri
    \/ CallTotpFromUri
    \/ CallGenerateToken
    \/ CallGenerateTokenLater
    \/ CallUriForEditing
    \/ CallUriForSaving
    \/ Return

Spec == Init /\ [][Next]_vars

----------------------------------------------------------------------------
(* What was written, read off the recipe and not off the parsers *)

\* the input is a URI by its syntax
WrittenAsUri(r) == ~r.bare /\ " " \notin Range(r.path)

SchemeIsOtpauth(r) == to_lowercase(r.scheme) = sOtpauth

AuthorityIsTotp(r) == r.auth # None /\ to_lowercase(r.auth[1]) = sTotp

\* the input passes the syntax, scheme and authority gates
PassesFront(r) == WrittenAsUri(r) /\ SchemeIsOtpauth(r) /\ AuthorityIsTotp(r)

\* the query is there and the collaborator made a mapping of it
HasMapping(r, qo) == r.query # None /\ qo = "object"

AlgorithmSpellings == { to_lowercase(sSHA1), to_lowercase(sSHA256), to_lowercase(sSHA512) }

\* the algorithm written, if any, is one of the three names
AlgorithmAccepted(q) == q.algorithm = None \/ to_lowercase(q.algorithm[1]) \in AlgorithmSpellings

\* the input passes every gate up to and including the secret
PassesSecret(r, qo) ==
    /\ PassesFront(r)
    /\ HasMapping(r, qo)
    /\ r.query[1].secret # None
    /\ r.query[1].secret # Some(<<>>)

IsErr(r, kind, payload) == ~r.ok /\ r.err = [kind |-> kind, payload |-> payload]

----------------------------------------------------------------------------
(* C1 *)

\* C1: from_uri never yields components with an empty secret.  For an input
\* that passes the scheme and authority gates: no query, or a query the
\* collaborator makes no mapping of, gives NoQueries; a mapping without
\* "secret" gives NoSecret; "secret=" gives EmptySecret; an Ok result carries
\* the non-empty secret that was written.
C1_SecretNeverEmpty ==
    (call.op = "components_from_uri") =>
        /\ ret.ok => ret.val.secret # <<>>
        /\ PassesFront(call.input) =>
             LET r == call.input
             IN /\ ~HasMapping(r, call.qo) => IsErr(ret, "NoQueries", <<>>)
                /\ (HasMapping(r, call.qo) /\ r.query[1].secret = None)
                      => IsErr(ret, "NoSecret", <<>>)
                /\ (HasMapping(r, call.qo) /\ r.query[1].secret = Some(<<>>))
                      => IsErr(ret, "EmptySecret", <<>>)
                /\ ret.ok => /\ PassesSecret(r, call.qo)
                             /\ ret.val.secret = r.query[1].secret[1]

\* "secret=" was written after a good scheme and authority, and EmptySecret came back
C1_Witness ==
    /\ call.op = "components_from_uri"
    /\ PassesFront(call.input)
    /\ HasMapping(call.input, call.qo)
    /\ call.input.query[1].secret = Some(<<>>)
    /\ IsErr(ret, "EmptySecret", <<>>)

----------------------------------------------------------------------------
(* C2 *)

\* the scheme as the URI parser reports it for the scheme text written
ReportedScheme(text) == IF to_lowercase(text) \in RegisteredSchemes THEN to_lowercase(text)
                        ELSE text

\* C2 (amended): from_uri is Ok only for scheme otpauth and authority totp,
\* both compared without regard to case.  Another scheme fails with
\* InvalidScheme carrying the scheme as the URI parser reports it: the
\* canonical lower-case name of a scheme it knows (HTTPS gives "https"), the
\* text as written otherwise.  With the scheme right, an absent or empty
\* authority fails with NoAuthority, another authority with InvalidAuthority
\* carrying it as written, and authority totp in any case passes this gate.
C2_SchemeAndAuthority ==
    (call.op = "components_from_uri" /\ WrittenAsUri(call.input)) =>
        LET r == call.input
        IN /\ ret.ok => SchemeIsOtpauth(r) /\ AuthorityIsTotp(r)
           /\ ~SchemeIsOtpauth(r) => IsErr(ret, "InvalidScheme", ReportedScheme(r.scheme))
           /\ (SchemeIsOtpauth(r) /\ (r.auth = None \/ r.auth = Some(<<>>)))
                 => IsErr(ret, "NoAuthority", <<>>)
           /\ (SchemeIsOtpauth(r) /\ r.auth # None /\ r.auth # Some(<<>>)
                 /\ ~AuthorityIsTotp(r))
                 => IsErr(ret, "InvalidAuthority", r.auth[1])
           /\ (SchemeIsOtpauth(r) /\ AuthorityIsTotp(r))
                 => (ret.ok \/ ret.err.kind \notin
                                 {"InvalidScheme", "NoAuthority", "InvalidAuthority"})

\* HTTPS was written with authority hotp, and InvalidScheme("https") came back
C2_Witness ==
    /\ call.op = "components_from_uri"
    /\ call.input.bare = FALSE
    /\ call.input.scheme = <<"H","T","T","P","S">>
    /\ call.input.auth = Some(sHotp)
    /\ IsErr(ret, "InvalidScheme", sHttps)

\* C2 as stated: the payload of InvalidScheme is always the scheme in lower case
C2_Original_PayloadLowercased ==
    (call.op = "components_from_uri" /\ WrittenAsUri(call.input)
       /\ ~SchemeIsOtpauth(call.input))
        => IsErr(ret, "InvalidScheme", to_lowercase(call.input.scheme))

----------------------------------------------------------------------------
(* C3 *)

\* the error of the first gate, in the order syntax, scheme, authority,
\* query, secret, algorithm, that the input written fails; "none" if it
\* passes them all
FirstFailingGate(r, qo) ==
    IF ~WrittenAsUri(r) THEN "URIError"
    ELSE IF ~SchemeIsOtpauth(r) THEN "InvalidScheme"
    ELSE IF r.auth = None \/ r.auth = Some(<<>>) THEN "NoAuthority"
    ELSE IF ~AuthorityIsTotp(r) THEN "InvalidAuthority"
    ELSE IF ~HasMapping(r, qo) THEN "NoQueries"
    ELSE IF r.query[1].secret = None THEN "NoSecret"
    ELSE IF r.query[1].secret = Some(<<>>) THEN "EmptySecret"
    ELSE IF ~AlgorithmAccepted(r.query[1]) THEN "InvalidAlgorithm"
    ELSE "none"

\* how many of the six gates the input written fails
GatesFailed(r, qo) ==
    Cardinality({ g \in {"syntax", "scheme", "authority", "query", "secret", "algorithm"} :
        \/ g = "syntax" /\ ~WrittenAsUri(r)
        \/ g = "scheme" /\ ~r.bare /\ ~SchemeIsOtpauth(r)
        \/ g = "authority" /\ ~r.bare /\ ~AuthorityIsTotp(r)
        \/ g = "query" /\ ~r.bare /\ ~HasMapping(r, qo)
        \/ g = "secret" /\ ~r.bare /\ r.query # None
                        /\ r.query[1].secret \in {None, Some(<<>>)}
        \/ g = "algorithm" /\ ~r.bare /\ r.query # None /\ ~AlgorithmAccepted(r.query[1]) })

\* C3: from_uri returns the error of the first failing gate in the order
\* URI syntax, scheme, authority, query, secret, algorithm, and nothing else:
\* an error result holds no components, and the result is Ok exactly when no
\* gate fails.
C3_FirstFailureWins ==
    (call.op = "components_from_uri") =>
        /\ ret.ok <=> FirstFailingGate(call.input, call.qo) = "none"
        /\ ~ret.ok => /\ ret.err.kind = FirstFailingGate(call.input, call.qo)
                      /\ DOMAIN ret = {"ok", "err"}
        /\ ret.ok => DOMAIN ret = {"ok", "val"}

\* four gates fail at once (scheme, authority, secret, algorithm) and the
\* error is that of the scheme
C3_Witness ==
    /\ call.op = "components_from_uri"
    /\ GatesFailed(call.input, call.qo) >= 4
    /\ ~ret.ok
    /\ ret.err.kind = "InvalidScheme"

----------------------------------------------------------------------------
(* C4 *)

\* digits values written that are no unsigned 8-bit integer
NotU8 == { <<"2","5","6">>, <<"x","8">>, <<>> }

\* period values written that are no unsigned 16-bit integer
NotU16 == { <<"6","5","5","3","6">>, <<"4","x">> }

\* C4: for an input that passes the gates up to the secret, an algorithm
\* value that is none of SHA1, SHA256, SHA512 (in any case) fails the parse
\* with InvalidAlgorithm carrying the value as written; a digits value that is
\* no u8 and a period value that is no u16 never fail it and leave the field
\* None, as an absent key does.
C4_AlgorithmHardDigitsPeriodSoft ==
    (call.op = "components_from_uri" /\ PassesSecret(call.input, call.qo)) =>
        LET q == call.input.query[1]
        IN /\ ~AlgorithmAccepted(q) => IsErr(ret, "InvalidAlgorithm", q.algorithm[1])
           /\ AlgorithmAccepted(q) =>
                /\ ret.ok
                /\ (q.digits = None \/ (q.digits # None /\ q.digits[1] \in NotU8))
                      => ret.val.digits = None
                /\ (q.period = None \/ (q.period # None /\ q.period[1] \in NotU16))
                      => ret.val.period = None

\* digits=256 and period=4x were written and the parse is Ok with both None
C4_Witness ==
    /\ call.op = "components_from_uri"
    /\ PassesSecret(call.input, call.qo)
    /\ call.input.query[1].digits = Some(<<"2","5","6">>)
    /\ call.input.query[1].period = Some(<<"4","x">>)
    /\ ret.ok
    /\ ret.val.digits = None
    /\ ret.val.period = None

----------------------------------------------------------------------------
(* C5 *)

\* a non-empty string of decimal digits
Numeric(s) == s # <<>> /\ \A i \in DOMAIN s : IsDigit(s[i])

\* the label written in each path tried: its last segment
WrittenLabel(path) ==
    CASE path = <<"/">> -> None
      [] path = <<"/","j","%","4","0","x">> -> Some(<<"j","%","4","0","x">>)
      [] path = <<"/","a","/","b">> -> Some(<<"b">>)
      [] path = <<"/","x">> -> Some(<<"x">>)

\* every field is written: issuer, a known algorithm, numeric digits and period
AllFieldsWritten(r, qo) ==
    /\ PassesSecret(r, qo)
    /\ r.query[1].issuer # None
    /\ r.query[1].algorithm # None /\ AlgorithmAccepted(r.query[1])
    /\ r.query[1].digits # None /\ Numeric(r.query[1].digits[1])
    /\ r.query[1].period # None /\ Numeric(r.query[1].period[1])

\* the numeric digits and period written fit a u8 and a u16
FitsTypes(q) == q.digits[1] \notin NotU8 /\ q.period[1] \notin NotU16

\* only the secret is written, after otpauth://totp/
OnlySecretWritten(r, qo) ==
    /\ PassesSecret(r, qo)
    /\ r.path = <<"/">>
    /\ r.query[1] = Query(r.query[1].secret, None, None, None, None, None)

\* C5 (amended): for otpauth://totp/<label>?secret=S&issuer=I&algorithm=A&
\* digits=D&period=P with A one of the three names and numeric D and P that
\* fit their types (D at most 255, P at most 65535), from_uri yields the last
\* path segment as the label with its percent-encoding untouched, secret S,
\* issuer Some(I), algorithm Some(A), digits Some(D), period Some(P); for
\* otpauth://totp/?secret=S alone it yields every optional field None, and
\* defaulting gives algorithm SHA1, digits 6, period 30.
C5_RoundTrip ==
    /\ (call.op = "components_from_uri" /\ AllFieldsWritten(call.input, call.qo)
          /\ FitsTypes(call.input.query[1])) =>
         LET q == call.input.query[1]
         IN /\ ret.ok
            /\ ret.val.label = WrittenLabel(call.input.path)
            /\ ret.val.secret = q.secret[1]
            /\ ret.val.issuer = q.issuer
            /\ ret.val.algorithm # None
            /\ to_lowercase(AlgorithmName(ret.val.algorithm[1])) = to_lowercase(q.algorithm[1])
            /\ ret.val.digits # None /\ Decimal(ret.val.digits[1]) = q.digits[1]
            /\ ret.val.period # None /\ Decimal(ret.val.period[1]) = q.period[1]
    /\ (call.op = "components_from_uri" /\ OnlySecretWritten(call.input, call.qo)) =>
         /\ ret.ok
         /\ ret.val = [label |-> None, secret |-> call.input.query[1].secret[1],
                       issuer |-> None, algorithm |-> None, digits |-> None,
                       period |-> None]
    /\ (call.op = "totp_from_uri" /\ OnlySecretWritten(call.input, call.qo)) =>
         /\ ret.ok
         /\ ret.val = [label |-> None, secret |-> call.input.query[1].secret[1],
                       issuer |-> None, algorithm |-> "SHA1", digits |-> 6,
                       period |-> 30]

\* every field was written, the label in two segments, and all came back
C5_Witness ==
    /\ call.op = "components_from_uri"
    /\ AllFieldsWritten(call.input, call.qo)
    /\ FitsTypes(call.input.query[1])
    /\ call.input.path = <<"/","a","/","b">>
    /\ ret.ok
    /\ ret.val.label = Some(<<"b">>)
    /\ ret.val.digits = Some(255)
    /\ ret.val.period = Some(65535)

\* C5 as stated: any numeric D and P come back as Some(D) and Some(P)
C5_Original_AnyNumeric ==
    (call.op = "components_from_uri" /\ AllFieldsWritten(call.input, call.qo)) =>
        /\ ret.ok
        /\ ret.val.digits # None /\ Decimal(ret.val.digits[1]) = call.input.query[1].digits[1]
        /\ ret.val.period # None /\ Decimal(ret.val.period[1]) = call.input.query[1].period[1]

----------------------------------------------------------------------------
(* C6 *)

\* C6: every TOTP that comes of an accepted URI has digits > 0 and period > 0
C6_DigitsAndPeriodPositive ==
    (call.op = "totp_from_uri" /\ ret.ok) => (ret.val.digits > 0 /\ ret.val.period > 0)

----------------------------------------------------------------------------
(* C7 *)

\* the source written is an otpauth URI, its scheme in any case
WrittenAsOtpauthUri(r) == WrittenAsUri(r) /\ SchemeIsOtpauth(r)

\* C7: generate_token parses a source that is an otpauth URI (the scheme in
\* any case) with TOTP::from_uri and takes any other source whole as the
\* secret, with no label, no issuer and the defaults, so that a bare secret
\* never fails as a URI; an Ok result carries the TOTP used, its token and
\* the current_time given.
C7_BareSecretAccepted ==
    (call.op = "generate_token") =>
        /\ WrittenAsOtpauthUri(call.input)
             => ret = TokenResult(TOTP_from_uri(call.uri, call.qo), call.time)
        /\ ~WrittenAsOtpauthUri(call.input)
             => /\ ret = TokenResult(Ok(TOTP_from_secret(call.uri)), call.time)
                /\ ret.ok \/ ret.err.kind # "URIError"
        /\ ret.ok => ret.val.timestamp = call.time

----------------------------------------------------------------------------
(* C8 *)

\* the original written is one from_uri accepts
OriginalAccepted(r) == PassesSecret(r, "object") /\ AlgorithmAccepted(r.query[1])

\* the edit is a bare secret, or the original with at most its secret changed
OnlySecretEdited(r, e) ==
    \/ e.bare
    \/ ~e.bare /\ e.query # None /\ e.query[1].secret # None
               /\ e = WithSecret(r, e.query[1].secret[1])

\* the secret the edit carries
EditedSecret(e) == IF e.bare THEN e.text ELSE e.query[1].secret[1]

\* C8: uri_for_saving(original, edited), for a structured original and an edit
\* that changes only the secret (a bare replacement secret included), returns
\* a URI that carries the new secret and the label, issuer, algorithm, digits
\* and period of the original.
C8_SavingKeepsHiddenFields ==
    (call.op = "uri_for_saving" /\ OriginalAccepted(call.input)
       /\ OnlySecretEdited(call.input, call.edit)) =>
        /\ ret.ok
        /\ LET saved    == from_uri(ret.val, "object")
               original == from_uri(call.uri, "object")
           IN /\ saved.ok
              /\ saved.val.secret = EditedSecret(call.edit)
              /\ saved.val.label = original.val.label
              /\ saved.val.issuer = original.val.issuer
              /\ saved.val.algorithm = original.val.algorithm
              /\ saved.val.digits = original.val.digits
              /\ saved.val.period = original.val.period

\* an original with label, issuer, SHA512, 8 digits and period 45 was edited
\* to a bare secret, and a URI with that secret was returned
C8_Witness ==
    /\ call.op = "uri_for_saving"
    /\ call.input = Uri(sOtpauth, Some(sTotp), <<"/","j","%","4","0","x">>,
                        Some(Query(Some(sJBSW), Some(sProton), Some(sSHA512),
                                   Some(<<"8">>), Some(<<"4","5">>), None)))
    /\ call.edit = Bare(sNB2W)
    /\ ret.ok
    /\ from_uri(ret.val, "object").ok
    /\ from_uri(ret.val, "object").val.secret = sNB2W
    /\ from_uri(ret.val, "object").val.period = Some(45)

----------------------------------------------------------------------------
(* C9 *)

\* two tokens of one source: the earlier call is in last, the later in call
TwoTokens == call.op = "generate_token" /\ last # None /\ ret.ok

\* C9 (amended): for one secret, algorithm, digits and period, two tokens
\* whose times have the same counter current_time / period (integer
\* division) are identical; so are those at t and t + period - 1 when t is a
\* multiple of period; and the counters of t and t + period always differ.
C9_RolloverAtBoundaries ==
    TwoTokens =>
        LET t0 == last[1].time
            t1 == call.time
            p  == ret.val.totp.period
        IN /\ ret.val.totp = last[1].ret.val.totp
           /\ (t0 \div p = t1 \div p) => ret.val.token = last[1].ret.val.token
           /\ (t0 % p = 0 /\ t1 = t0 + p - 1) => ret.val.token = last[1].ret.val.token
           /\ (t1 = t0 + p) => (t1 \div p) = (t0 \div p) + 1

\* tokens at 30 and 59 with period 30: one counter, one token
C9_Witness ==
    /\ TwoTokens
    /\ ret.val.totp.period = 30
    /\ last[1].time = 30
    /\ call.time = 59
    /\ ret.val.token = last[1].ret.val.token

\* C9 as stated: the tokens at t and t + period - 1 are identical, for every t
C9_Original_AnyTime ==
    (TwoTokens /\ call.time = last[1].time + ret.val.totp.period - 1)
        => ret.val.token = last[1].ret.val.token

----------------------------------------------------------------------------
(* C10 *)

\* C10: a token that generate_token returns has exactly as many characters
\* as the digits configured, whatever that number is
C10_TokenLengthIsDigits ==
    (call.op = "generate_token" /\ ret.ok) => Len(ret.val.token) = ret.val.totp.digits

=============================================================================
